---- MODULE Spec2Model ----
(***************************************************************************)
(* A model of src/app.py: the column resolver (get_column), the series     *)
(* normalizers (process_ods133, process_ods134), the provider-B fetcher    *)
(* (process_cbmp) and the render callback (update_graphs).                  *)
(*                                                                         *)
(* Text is modelled as a sequence of one-character strings, so that        *)
(* str.lower() and the substring test `a in b` are computed, not assumed.  *)
(* Three specifications share the module:                                  *)
(*   SpecResolver  get_column on drawn header rows and candidate lists      *)
(*   SpecNorm      the normalizers and process_cbmp on drawn raw tables     *)
(*   SpecRender    update_graphs, its event loop and its two fetch tasks    *)
(***************************************************************************)
EXTENDS Integers, Sequences, FiniteSets, TLC

VARIABLES
    \* SpecResolver
    columns,      \* df.columns of the table handed to get_column
    possible,     \* the ordered candidate list handed to get_column
    found,        \* what get_column returned
    rpc,          \* "call" before the call, "returned" after it
    \* SpecNorm
    variant,      \* which function is under test
    instants,     \* per source row, the instant its timestamp text denotes
    raw,          \* the table as parsed from the CSV body
    out,          \* the result of the first application
    out2,         \* the result of applying the normalizer to its own output
    npc,          \* "raw", "normalized", "renormalized"
    \* SpecRender
    pc,           \* position inside update_graphs
    render,       \* number of the current render
    loops,        \* per render, the state of the event loop it created
    current_loop, \* the loop installed by asyncio.set_event_loop
    task,         \* the two fetch_csv tasks of fetch_all_csv
    df_133,       \* first element of fetch_all_csv's result
    df_134,       \* second element of fetch_all_csv's result
    cbmp_resp,    \* what provider B answers in this render
    cbmp_df,      \* process_cbmp's return value
    df1,          \* table handed to the SI/ACE and MIP/MDP traces
    df2,          \* table handed to the imbalance-price trace
    calls,        \* the normalizer invocations of this render, with their argument
    outcome       \* how the render ended

resolverVars == <<columns, possible, found, rpc>>
normVars == <<variant, instants, raw, out, out2, npc>>
renderVars == <<pc, render, loops, current_loop, task, df_133, df_134,
                cbmp_resp, cbmp_df, df1, df2, calls, outcome>>
vars == <<resolverVars, normVars, renderVars>>

------------------------------------------------------------------------------
(* Text *)

UpperCase == <<"A","B","C","D","E","F","G","H","I","J","K","L","M",
               "N","O","P","Q","R","S","T","U","V","W","X","Y","Z">>
LowerCase == <<"a","b","c","d","e","f","g","h","i","j","k","l","m",
               "n","o","p","q","r","s","t","u","v","w","x","y","z">>

\* str.lower() on one character
LowerTable ==
    [c \in {UpperCase[i] : i \in 1..Len(UpperCase)} |->
        LowerCase[CHOOSE i \in 1..Len(UpperCase) : UpperCase[i] = c]]

LowerChar(c) == IF c \in DOMAIN LowerTable THEN LowerTable[c] ELSE c

\* str.lower()
Lower(s) == [i \in 1..Len(s) |-> LowerChar(s[i])]

\* the substring test `sub in s`
Contains(s, sub) ==
    \E i \in 1..(Len(s) - Len(sub) + 1) : SubSeq(s, i, i + Len(sub) - 1) = sub

\* the test of line 28, without the lower-casing
MatchesCaseSensitive(name, col) == Contains(col, name)

\* the test of line 28 with its operands exchanged
MatchesSwapped(name, col) == Contains(Lower(name), Lower(col))

\* line 28: name.lower() in col.lower()
Matches(name, col) == Contains(Lower(col), Lower(name))

\* Python's None, as the result of get_column: no column name is empty
None == <<>>

\* the inner loop of get_column, from column j on
RECURSIVE ScanColumns(_, _, _)
ScanColumns(cols, name, j) ==
    IF j > Len(cols) THEN None
    ELSE IF Matches(name, cols[j]) THEN cols[j]
    ELSE ScanColumns(cols, name, j + 1)

\* the outer loop of get_column, from candidate i on
RECURSIVE ScanNames(_, _, _)
ScanNames(cols, names, i) ==
    IF i > Len(names) THEN None
    ELSE LET col == ScanColumns(cols, names[i], 1)
         IN IF col # None THEN col ELSE ScanNames(cols, names, i + 1)

\* the loops of get_column nested the other way round: columns outside
RECURSIVE ScanColumnFirst(_, _, _)
ScanColumnFirst(cols, names, j) ==
    IF j > Len(cols) THEN None
    ELSE IF \E i \in 1..Len(names) : Matches(names[i], cols[j]) THEN cols[j]
    ELSE ScanColumnFirst(cols, names, j + 1)

get_column_column_first(cols, names) == ScanColumnFirst(cols, names, 1)

get_column(cols, names) == ScanNames(cols, names, 1)

------------------------------------------------------------------------------
(* SpecResolver: get_column on every header row and candidate list whose    *)
(* texts, over Sigma, hold at most MaxChars characters in all.              *)

Sigma == {"a", "A", "b"}
MaxChars == 3

Texts(n) == UNION {[1..k -> Sigma] : k \in 1..n}

RECURSIVE TextLists(_)
TextLists(b) ==
    {<<>>} \cup
    (IF b = 0 THEN {}
     ELSE UNION {{<<t>> \o l : l \in TextLists(b - Len(t))} : t \in Texts(b)})

ResolverIdle ==
    /\ columns = <<>>
    /\ possible = <<>>
    /\ found = None
    /\ rpc = "off"

NormIdle ==
    /\ variant = "off"
    /\ instants = <<>>
    /\ raw = <<>>
    /\ out = <<>>
    /\ out2 = <<>>
    /\ npc = "off"

RenderIdle ==
    /\ pc = "off"
    /\ render = 0
    /\ loops = <<>>
    /\ current_loop = 0
    /\ task = <<>>
    /\ df_133 = <<>>
    /\ df_134 = <<>>
    /\ cbmp_resp = <<>>
    /\ cbmp_df = <<>>
    /\ df1 = <<>>
    /\ df2 = <<>>
    /\ calls = {}
    /\ outcome = <<>>

InitResolver ==
    /\ columns \in TextLists(MaxChars)
    /\ possible \in TextLists(MaxChars)
    /\ found = None
    /\ rpc = "call"
    /\ NormIdle
    /\ RenderIdle

\* a call of get_column(df, possible)
CallGetColumn ==
    /\ rpc = "call"
    /\ found' = get_column(columns, possible)
    /\ rpc' = "returned"
    /\ UNCHANGED <<columns, possible, normVars, renderVars>>

NextResolver == CallGetColumn

SpecResolver == InitResolver /\ [][NextResolver]_vars

\* the candidates that some column of the table contains, case-insensitively
MatchedCandidates ==
    {i \in 1..Len(possible) :
        \E j \in 1..Len(columns) : Contains(Lower(columns[j]), Lower(possible[i]))}

\* C1: get_column returns None or a column of the table whose lower-cased
\* name contains a lower-cased candidate, and None exactly when no column
\* contains any candidate.
C1_ResolverContract ==
    rpc = "returned" =>
        /\ (found = None) <=> (MatchedCandidates = {})
        /\ found # None =>
            /\ \E j \in 1..Len(columns) : columns[j] = found
            /\ \E i \in 1..Len(possible) : Contains(Lower(found), Lower(possible[i]))

\* a call that resolves a column only through the lower-casing
C1_Witness ==
    /\ rpc = "returned"
    /\ found # None
    /\ \A i \in 1..Len(possible) : ~Contains(found, possible[i])

\* C2: among several matching columns get_column returns the first column,
\* in table order, that contains the earliest matched candidate, even when
\* a column matching only a later candidate stands earlier in the table.
C2_CandidateFirst ==
    (rpc = "returned" /\ MatchedCandidates # {}) =>
        LET first == CHOOSE i \in MatchedCandidates :
                        \A k \in MatchedCandidates : i <= k
            hits == {j \in 1..Len(columns) :
                        Contains(Lower(columns[j]), Lower(possible[first]))}
            j0 == CHOOSE j \in hits : \A k \in hits : j <= k
        IN found = columns[j0]

\* the returned column stands after a column that matches only a later candidate
C2_Witness ==
    /\ rpc = "returned"
    /\ Len(possible) >= 2
    /\ Len(columns) >= 2
    /\ found = columns[2]
    /\ found # columns[1]
    /\ ~Contains(Lower(columns[1]), Lower(possible[1]))
    /\ Contains(Lower(columns[1]), Lower(possible[2]))
    /\ Contains(Lower(columns[2]), Lower(possible[1]))

------------------------------------------------------------------------------
(* The literal texts of app.py (T_) and the header texts of the modelled     *)
(* source tables (H_), character by character.                              *)

\* 'datetime'
T_datetime == <<"d","a","t","e","t","i","m","e">>

\* 'tijdstip'
T_tijdstip == <<"t","i","j","d","s","t","i","p">>

\* 'system imbalance'
T_system_imbalance ==
    <<"s","y","s","t","e","m"," ","i","m","b","a","l","a","n","c","e">>

\* 'area control error'
T_area_control_error ==
    <<"a","r","e","a"," ","c","o","n","t","r","o","l"," ","e","r","r","o",
      "r">>

\* 'ACE'
T_ACE == <<"A","C","E">>

\* 'marginal incremental'
T_marginal_incremental ==
    <<"m","a","r","g","i","n","a","l"," ","i","n","c","r","e","m","e","n",
      "t","a","l">>

\* 'marginal decremental'
T_marginal_decremental ==
    <<"m","a","r","g","i","n","a","l"," ","d","e","c","r","e","m","e","n",
      "t","a","l">>

\* 'imbalance price'
T_imbalance_price ==
    <<"i","m","b","a","l","a","n","c","e"," ","p","r","i","c","e">>

\* 'Datetime'
T_Datetime == <<"D","a","t","e","t","i","m","e">>

\* 'SI'
T_SI == <<"S","I">>

\* 'MIP'
T_MIP == <<"M","I","P">>

\* 'MDP'
T_MDP == <<"M","D","P">>

\* 'Imbalance'
T_Imbalance == <<"I","m","b","a","l","a","n","c","e">>

\* 'Zeit (ISO 8601)'
T_Zeit == <<"Z","e","i","t"," ","(","I","S","O"," ","8","6","0","1",")">>

\* 'ELIA_POS'
T_ELIA_POS == <<"E","L","I","A","_","P","O","S">>

\* 'ELIA_NEG'
T_ELIA_NEG == <<"E","L","I","A","_","N","E","G">>

\* 'Tijdstip'
H_Tijdstip == <<"T","i","j","d","s","t","i","p">>

\* 'Resolution code'
H_Resolution_code ==
    <<"R","e","s","o","l","u","t","i","o","n"," ","c","o","d","e">>

\* 'System imbalance'
H_System_imbalance ==
    <<"S","y","s","t","e","m"," ","i","m","b","a","l","a","n","c","e">>

\* 'Area Control Error'
H_Area_Control_Error ==
    <<"A","r","e","a"," ","C","o","n","t","r","o","l"," ","E","r","r","o",
      "r">>

\* 'ACE (raw)'
H_ACE_raw == <<"A","C","E"," ","(","r","a","w",")">>

\* 'Net Area Control Error Adjusted'
H_Net_ACE_Adjusted ==
    <<"N","e","t"," ","A","r","e","a"," ","C","o","n","t","r","o","l"," ",
      "E","r","r","o","r"," ","A","d","j","u","s","t","e","d">>

\* 'Marginal incremental price'
H_Marginal_incremental_price ==
    <<"M","a","r","g","i","n","a","l"," ","i","n","c","r","e","m","e","n",
      "t","a","l"," ","p","r","i","c","e">>

\* 'Marginal decremental price'
H_Marginal_decremental_price ==
    <<"M","a","r","g","i","n","a","l"," ","d","e","c","r","e","m","e","n",
      "t","a","l"," ","p","r","i","c","e">>

\* 'Imbalance Price'
H_Imbalance_price ==
    <<"I","m","b","a","l","a","n","c","e"," ","P","r","i","c","e">>

\* 'Zeit'
H_Zeit_short == <<"Z","e","i","t">>

------------------------------------------------------------------------------
(* Tables (pandas DataFrame): an ordered header row and rows of cells.      *)
(* A cell is a record: text [k "str"], a timestamp text as parsed by        *)
(* dateutil [k "iso"], a pandas Timestamp [k "ts"], a number [k "num"],      *)
(* NaN [k "nan"] or NaT [k "nat"].                                          *)

Str(s) == [k |-> "str", s |-> s]
Num(v) == [k |-> "num", v |-> v]
NaN == [k |-> "nan"]
NaT == [k |-> "nat"]
\* a timestamp text: the wall-clock reading and, when written, the UTC offset
Iso(wall, hasoff, off) == [k |-> "iso", wall |-> wall, hasoff |-> hasoff, off |-> off]
\* a pandas Timestamp: the instant (minutes on the UTC axis) and the zone
Timestamp(utc, tz) == [k |-> "ts", utc |-> utc, tz |-> tz]

Frame(cols, rows) == [columns |-> cols, data |-> rows]

\* pd.DataFrame(columns=[...])
EmptyFrame(cols) == Frame(cols, <<>>)

\* DataFrame.empty: some axis has length 0
IsEmpty(df) == Len(df.columns) = 0 \/ Len(df.data) = 0

HasColumn(df, name) == \E j \in 1..Len(df.columns) : df.columns[j] = name

ColumnIndex(df, name) ==
    CHOOSE j \in 1..Len(df.columns) :
        /\ df.columns[j] = name
        /\ \A h \in 1..(j - 1) : df.columns[h] # name

\* df[name], for a name the table has
Column(df, name) ==
    LET j == ColumnIndex(df, name)
    IN [i \in 1..Len(df.data) |-> df.data[i][j]]

\* df[name] = values: replaces the column in place, or appends it
SetColumn(df, name, values) ==
    IF HasColumn(df, name)
    THEN LET j == ColumnIndex(df, name)
         IN Frame(df.columns,
                  [i \in 1..Len(df.data) |-> [df.data[i] EXCEPT ![j] = values[i]]])
    ELSE Frame(Append(df.columns, name),
               [i \in 1..Len(df.data) |-> Append(df.data[i], values[i])])

\* df[[names]], for names the table has
Select(df, names) ==
    Frame(names,
          [i \in 1..Len(df.data) |->
              [n \in 1..Len(names) |-> df.data[i][ColumnIndex(df, names[n])]]])

\* the result of a call: a returned table, or the exception it raised
Return(df) == [status |-> "ok", table |-> df]
Raise(e) == [status |-> e, table |-> Frame(<<>>, <<>>)]

------------------------------------------------------------------------------
(* Time. Instants are minutes on the UTC axis, counted from                 *)
(* 2024-03-31T00:00Z. Europe/Brussels is UTC+1 until SpringForward          *)
(* (2024-03-31T01:00Z), UTC+2 from then until FallBack                      *)
(* (2024-10-27T01:00Z), and UTC+1 afterwards.                               *)

SpringForward == 60
FallBack == 302460
WinterOffset == 60
SummerOffset == 120
QuarterHour == 15

Brussels == "Europe/Brussels"
UTC == "UTC"

\* the UTC offset of a zone at an instant
UtcOffset(tz, utc) ==
    IF tz = Brussels
    THEN IF utc >= SpringForward /\ utc < FallBack THEN SummerOffset ELSE WinterOffset
    ELSE 0

\* the civil reading of a Timestamp: wall clock and offset in its zone
Civil(ts) ==
    [wall |-> ts.utc + UtcOffset(ts.tz, ts.utc), off |-> UtcOffset(ts.tz, ts.utc)]

\* the instant a timestamp text denotes when its written offset is dropped
IsoInstantIgnoringOffset(c) == c.wall

\* the instant a timestamp text denotes: its offset applied, none meaning UTC
IsoInstant(c) == IF c.hasoff THEN c.wall - c.off ELSE c.wall

\* pd.to_datetime(column, utc=True): raises on a text that is no timestamp
to_datetime_utc(values) ==
    IF \E i \in 1..Len(values) : values[i].k \notin {"iso", "ts", "nat", "nan"}
    THEN [ok |-> FALSE, values |-> <<>>]
    ELSE [ok |-> TRUE,
          values |-> [i \in 1..Len(values) |->
                        IF values[i].k = "iso" THEN Timestamp(IsoInstant(values[i]), UTC)
                        ELSE IF values[i].k = "ts" THEN Timestamp(values[i].utc, UTC)
                        ELSE NaT]]

\* Series.dt.tz_convert(tz): the same instants, read in another zone
tz_convert(values, tz) ==
    [i \in 1..Len(values) |->
        IF values[i].k = "ts" THEN Timestamp(values[i].utc, tz) ELSE NaT]

\* adding a duration to the wall-clock reading and reading the result back
\* with the offset that holds at the new instant
AddWallClock(values, minutes) ==
    [i \in 1..Len(values) |->
        IF values[i].k = "ts"
        THEN Timestamp(Civil(values[i]).wall + minutes
                         - UtcOffset(values[i].tz, values[i].utc + minutes),
                       values[i].tz)
        ELSE NaT]

\* column + pd.Timedelta(minutes=m) on a zone-aware column: elapsed time
AddTimedelta(values, minutes) ==
    [i \in 1..Len(values) |->
        IF values[i].k = "ts"
        THEN Timestamp(values[i].utc + minutes, values[i].tz)
        ELSE NaT]

------------------------------------------------------------------------------
(* Numbers: the decimal integers among the cell texts.                      *)

Digits == <<"0","1","2","3","4","5","6","7","8","9">>

IsDigit(c) == \E d \in 1..Len(Digits) : Digits[d] = c
DigitValue(c) == (CHOOSE d \in 1..Len(Digits) : Digits[d] = c) - 1

RECURSIVE Decimal(_)
Decimal(s) ==
    IF Len(s) = 0 THEN 0
    ELSE 10 * Decimal(SubSeq(s, 1, Len(s) - 1)) + DigitValue(s[Len(s)])

IsDecimal(s) == Len(s) > 0 /\ \A i \in 1..Len(s) : IsDigit(s[i])

\* a coercion that writes 0 where the text is no number
CoerceToZero(c) ==
    IF c.k = "num" THEN c
    ELSE IF c.k = "str" /\ IsDecimal(c.s) THEN Num(Decimal(c.s))
    ELSE Num(0)

\* pd.to_numeric(..., errors='coerce') on one cell
CoerceNumber(c) ==
    IF c.k = "num" THEN c
    ELSE IF c.k = "str" /\ IsDecimal(c.s) THEN Num(Decimal(c.s))
    ELSE IF c.k = "str" /\ Len(c.s) > 1 /\ c.s[1] = "-" /\ IsDecimal(Tail(c.s))
         THEN Num(0 - Decimal(Tail(c.s)))
    ELSE NaN

\* pd.to_numeric(column, errors='coerce')
to_numeric(values) == [i \in 1..Len(values) |-> CoerceNumber(values[i])]

------------------------------------------------------------------------------
(* The series normalizers.                                                  *)

TimeCandidates == <<T_datetime, T_tijdstip>>

\* lines 33-35: resolve the time column, parse it as UTC in place, and
\* write its Europe/Brussels reading to 'Datetime'
SetDatetime133(df) ==
    LET time_col == get_column(df.columns, TimeCandidates)
    IN IF time_col = None THEN Raise("KeyError")
       ELSE LET parsed == to_datetime_utc(Column(df, time_col))
            IN IF ~parsed.ok THEN Raise("ValueError")
               ELSE LET d == SetColumn(df, time_col, parsed.values)
                    IN Return(SetColumn(d, T_Datetime,
                                        tz_convert(Column(d, time_col), Brussels)))

\* lines 43-45: as lines 33-35, plus pd.Timedelta(minutes=15)
SetDatetime134(df) ==
    LET time_col == get_column(df.columns, TimeCandidates)
    IN IF time_col = None THEN Raise("KeyError")
       ELSE LET parsed == to_datetime_utc(Column(df, time_col))
            IN IF ~parsed.ok THEN Raise("ValueError")
               ELSE LET d == SetColumn(df, time_col, parsed.values)
                    IN Return(SetColumn(d, T_Datetime,
                                        AddTimedelta(tz_convert(Column(d, time_col), Brussels),
                                                     QuarterHour)))

\* df[target] = pd.to_numeric(df[get_column(df, candidates)], errors='coerce'),
\* after the statements that produced r; df[None] raises KeyError
AssignNumeric(r, target, candidates) ==
    IF r.status # "ok" THEN r
    ELSE LET col == get_column(r.table.columns, candidates)
         IN IF col = None THEN Raise("KeyError")
            ELSE Return(SetColumn(r.table, target, to_numeric(Column(r.table, col))))

Columns133 == <<T_Datetime, T_SI, T_ACE, T_MIP, T_MDP>>
Columns134 == <<T_Datetime, T_Imbalance>>
ColumnsCbmp == <<T_Datetime, T_ELIA_POS, T_ELIA_NEG>>

process_ods133(df) ==
    LET r1 == SetDatetime133(df)
        r2 == AssignNumeric(r1, T_SI, <<T_system_imbalance>>)
        r3 == AssignNumeric(r2, T_ACE, <<T_area_control_error, T_ACE>>)
        r4 == AssignNumeric(r3, T_MIP, <<T_marginal_incremental>>)
        r5 == AssignNumeric(r4, T_MDP, <<T_marginal_decremental>>)
    IN IF r5.status = "ok" THEN Return(Select(r5.table, Columns133)) ELSE r5

process_ods134(df) ==
    LET r1 == SetDatetime134(df)
        r2 == AssignNumeric(r1, T_Imbalance, <<T_imbalance_price>>)
    IN IF r2.status = "ok" THEN Return(Select(r2.table, Columns134)) ELSE r2

------------------------------------------------------------------------------
(* The provider-B fetcher. Its argument here is what pd.read_csv(url) does:  *)
(* a parsed table, or the exception it raises.                              *)

NoTz == "None"
FixedOffset == "fixed offset"

\* the offsets written in a column of timestamp texts; "naive" for none
WrittenOffsets(values) ==
    {IF values[i].hasoff THEN <<"offset", values[i].off>> ELSE <<"naive", 0>> :
        i \in {h \in 1..Len(values) : values[h].k = "iso"}}

\* pd.to_datetime(column, errors='coerce'), without utc=True: one zone per
\* column; a column that mixes offsets, or offsets with none, stays a column
\* of Python objects, on which .dt raises
to_datetime_coerce(values) ==
    LET offs == WrittenOffsets(values)
    IN IF Cardinality(offs) > 1 THEN [tz |-> "object", values |-> values]
       ELSE [tz |-> IF \E o \in offs : o[1] = "offset" THEN FixedOffset ELSE NoTz,
             values |-> [i \in 1..Len(values) |->
                           IF values[i].k = "iso"
                           THEN Timestamp(IsoInstant(values[i]),
                                          IF values[i].hasoff THEN FixedOffset ELSE NoTz)
                           ELSE NaT]]

\* Series.dt.tz_localize('UTC'): the wall-clock reading taken as UTC
tz_localize_utc(values) ==
    [i \in 1..Len(values) |->
        IF values[i].k = "ts" THEN Timestamp(values[i].utc, UTC) ELSE NaT]

\* df[name] = pd.to_numeric(df[name], errors='coerce'), after the statements
\* that produced r
CoerceInPlace(r, name) ==
    IF r.status # "ok" THEN r
    ELSE IF ~HasColumn(r.table, name) THEN Raise("KeyError")
    ELSE Return(SetColumn(r.table, name, to_numeric(Column(r.table, name))))

\* lines 52-60: the body of the try statement
cbmp_try(resp) ==
    IF resp.status # "ok" THEN Raise(resp.status)
    ELSE IF ~HasColumn(resp.table, T_Zeit) THEN Raise("KeyError")
    ELSE LET parsed == to_datetime_coerce(Column(resp.table, T_Zeit))
             d == SetColumn(resp.table, T_Zeit, parsed.values)
             r1 == IF parsed.tz = "object" THEN Raise("AttributeError")
                   ELSE IF parsed.tz = NoTz
                   THEN Return(SetColumn(d, T_Datetime,
                            tz_convert(tz_localize_utc(Column(d, T_Zeit)), Brussels)))
                   ELSE Return(SetColumn(d, T_Datetime,
                            tz_convert(Column(d, T_Zeit), Brussels)))
             r2 == CoerceInPlace(r1, T_ELIA_POS)
             r3 == CoerceInPlace(r2, T_ELIA_NEG)
         IN IF r3.status = "ok" THEN Return(Select(r3.table, ColumnsCbmp)) ELSE r3

\* process_cbmp without its except clause
process_cbmp_no_except(resp) == cbmp_try(resp)

\* lines 49-63: every Exception of the body becomes the empty three-column table
process_cbmp(resp) ==
    LET r == cbmp_try(resp)
    IN IF r.status = "ok" THEN r ELSE Return(EmptyFrame(ColumnsCbmp))

------------------------------------------------------------------------------
(* SpecNorm: the normalizers and process_cbmp on raw tables of at most      *)
(* MaxRows rows. A source row is drawn as the instant it reports and the    *)
(* way its timestamp is written, plus its metric cells.                     *)

MaxRows == 2

\* how a source writes an instant t
Encode(t, enc) ==
    CASE enc = "naive" -> Iso(t, FALSE, 0)
      [] enc = "utc" -> Iso(t, TRUE, 0)
      [] enc = "local" -> Iso(t + UtcOffset(Brussels, t), TRUE, UtcOffset(Brussels, t))
      [] OTHER -> Str(<<"?">>)

Garbage == [t |-> 0, enc |-> "garbage"]

TimeSpecs(ts, encs) == {[t |-> t, enc |-> e] : t \in ts, e \in encs} \cup {Garbage}

\* the two readings of 02:45 on the night the clocks go back
TimeSpecs133 == TimeSpecs({FallBack - 15, FallBack + 45}, {"naive", "local"})

\* instants on both sides of both transitions
TimeSpecsB ==
    TimeSpecs({SpringForward - 15, SpringForward, FallBack - 15, FallBack},
              {"naive", "utc", "local"})

\* one instant before the spring transition and two after it
TimeSpecsCbmp ==
    TimeSpecs({SpringForward - 15, SpringForward, SpringForward + 15},
              {"naive", "utc", "local"})

Twelve == Str(<<"1","2">>)
MinusFive == Str(<<"-","5">>)
Seven == Str(<<"7">>)
NotAvailable == Str(<<"n","/","a">>)
Ninety == Str(<<"9","0">>)

\* what each modelled cell text means as a number
Meaning(c) ==
    CASE c = Twelve -> Num(12)
      [] c = MinusFive -> Num(0 - 5)
      [] c = Seven -> Num(7)
      [] c = Ninety -> Num(90)
      [] OTHER -> NaN

RowSpecs133 ==
    [time : TimeSpecs133, si : {Twelve, NotAvailable}, ace : {MinusFive, NaN},
     mip : {Seven}, mdp : {NotAvailable}]

RowSpecs134 == [time : TimeSpecsB, price : {MinusFive, NotAvailable}]

RowSpecsCbmp == [time : TimeSpecsCbmp, pos : {Twelve, NotAvailable}, neg : {MinusFive, NaN}]

Header133 == <<T_Datetime, H_Resolution_code, H_System_imbalance, H_Area_Control_Error,
               H_Marginal_incremental_price, H_Marginal_decremental_price>>
Header133Ambiguous == <<H_Tijdstip, H_ACE_raw, H_System_imbalance, H_Net_ACE_Adjusted,
                        H_Marginal_incremental_price, H_Marginal_decremental_price>>
Header133Short == <<T_Datetime, H_System_imbalance, T_ACE>>
Headers133 == {Header133, Header133Ambiguous, Header133Short}

Header134 == <<T_Datetime, H_Imbalance_price>>
Header134Dutch == <<H_Resolution_code, H_Tijdstip, H_Imbalance_price>>
Header134Short == <<T_Datetime, H_Resolution_code>>
Headers134 == {Header134, Header134Dutch, Header134Short}

HeaderCbmp == <<T_Zeit, T_ELIA_POS, T_ELIA_NEG>>
HeaderCbmpNoNeg == <<T_Zeit, T_ELIA_POS>>
HeaderCbmpNoZeit == <<H_Zeit_short, T_ELIA_POS, T_ELIA_NEG>>
HeadersCbmp == {HeaderCbmp, HeaderCbmpNoNeg, HeaderCbmpNoZeit}

\* str.strip() on a column name
RECURSIVE Strip(_)
Strip(s) ==
    IF Len(s) > 0 /\ s[1] = " " THEN Strip(Tail(s))
    ELSE IF Len(s) > 0 /\ s[Len(s)] = " " THEN Strip(SubSeq(s, 1, Len(s) - 1))
    ELSE s

\* the cell a source row holds under a header, which a body may pad with blanks
SourceCell(col, r) ==
    CASE col \in {T_Datetime, H_Tijdstip, T_Zeit, H_Zeit_short} -> Encode(r.time.t, r.time.enc)
      [] col = H_System_imbalance -> r.si
      [] col \in {H_Area_Control_Error, H_Net_ACE_Adjusted, T_ACE} -> r.ace
      [] col = H_Marginal_incremental_price -> r.mip
      [] col = H_Marginal_decremental_price -> r.mdp
      [] col = H_Imbalance_price -> r.price
      [] col = T_ELIA_POS -> r.pos
      [] col = T_ELIA_NEG -> r.neg
      [] col = H_ACE_raw -> Ninety
      [] OTHER -> Str(<<"P","T","1","M">>)

SourceFrame(header, rows) ==
    Frame(header,
          [i \in 1..Len(rows) |-> [j \in 1..Len(header) |-> SourceCell(Strip(header[j]), rows[i])]])

RowLists(specs) == UNION {[1..n -> specs] : n \in 0..MaxRows}

Pending == [status |-> "pending", table |-> Frame(<<>>, <<>>)]

InitNormWith(v, headers, specs) ==
    /\ variant = v
    /\ \E header \in headers, rows \in RowLists(specs) :
        /\ raw = SourceFrame(header, rows)
        /\ instants = [i \in 1..Len(rows) |-> rows[i].time]

InitNorm ==
    /\ \/ InitNormWith("ods133", Headers133, RowSpecs133)
       \/ InitNormWith("ods134", Headers134, RowSpecs134)
       \/ InitNormWith("cbmp", HeadersCbmp, RowSpecsCbmp)
    /\ out = Pending
    /\ out2 = Pending
    /\ npc = "raw"
    /\ ResolverIdle
    /\ RenderIdle

Apply(v, df) ==
    CASE v = "ods133" -> process_ods133(df)
      [] v = "ods134" -> process_ods134(df)
      [] OTHER -> process_cbmp(Return(df))

\* the function under test applied to the source table
Normalize ==
    /\ npc = "raw"
    /\ out' = Apply(variant, raw)
    /\ npc' = "normalized"
    /\ UNCHANGED <<variant, instants, raw, out2, resolverVars, renderVars>>

\* a normalizer applied to the table it returned
Renormalize ==
    /\ npc = "normalized"
    /\ variant \in {"ods133", "ods134"}
    /\ out.status = "ok"
    /\ out2' = Apply(variant, out.table)
    /\ npc' = "renormalized"
    /\ UNCHANGED <<variant, instants, raw, out, resolverVars, renderVars>>

NextNorm == Normalize \/ Renormalize

SpecNorm == InitNorm /\ [][NextNorm]_vars

\* the 'Datetime' cell of output row i: 'Datetime' is the first output column
Datetime(r, i) == r.table.data[i][1]

AllParseable == \A i \in 1..Len(instants) : instants[i].enc # "garbage"

\* C5 as claimed: a normalizer applied to its own output returns that output.
C5_Idempotent == npc = "renormalized" => out2 = out

\* C5 as amended: a normalizer applied to its own output raises KeyError,
\* since no output column name contains 'system imbalance' (Variant A) or
\* 'imbalance price' (Variant B); of its statements only the timestamp lines
\* of Variant A (33-35) leave the output unchanged, those of Variant B (43-45)
\* move every Datetime a further 15 minutes on.
C5_RaisesOnOwnOutput ==
    npc = "renormalized" =>
        /\ out2.status = "KeyError"
        /\ variant = "ods133" => SetDatetime133(out.table) = Return(out.table)
        /\ variant = "ods134" =>
            LET again == SetDatetime134(out.table)
            IN /\ again.status = "ok"
               /\ again.table.columns = out.table.columns
               /\ \A i \in 1..Len(out.table.data) :
                    /\ Datetime(again, i) = Timestamp(Datetime(out, i).utc + 15, Brussels)
                    /\ Tail(again.table.data[i]) = Tail(out.table.data[i])

\* a normalizer was applied to a non-empty table it returned
C5_Witness ==
    /\ npc = "renormalized"
    /\ Len(out.table.data) > 0
    /\ out.table.columns \in {Columns133, Columns134}

\* C6: for a source row of process_ods134 that reports instant T, the output
\* Datetime is the instant T + 15 minutes read in Europe/Brussels, also when
\* T and T + 15 minutes lie on opposite sides of a daylight-saving
\* transition: 01:45+01:00 becomes 03:00+02:00 and 02:45+02:00 becomes
\* 02:00+01:00.
C6_ShiftIsElapsedTime ==
    (variant = "ods134" /\ npc # "raw" /\ out.status = "ok") =>
        /\ Len(out.table.data) = Len(instants)
        /\ \A i \in 1..Len(instants) :
            LET d == Datetime(out, i)
                t == instants[i].t
            IN /\ d.k = "ts"
               /\ d.tz = Brussels
               /\ d.utc = t + 15
               /\ Civil(d).wall - Civil(d).off = t + 15
               /\ t = SpringForward - 15 => Civil(d) = [wall |-> 180, off |-> 120]
               /\ t = FallBack - 15 => Civil(d) = [wall |-> 302520, off |-> 60]

\* a row whose instant and shifted instant straddle a transition was normalized
C6_Witness ==
    /\ variant = "ods134"
    /\ npc = "normalized"
    /\ out.status = "ok"
    /\ \E i \in 1..Len(instants) : instants[i].t = SpringForward - 15
    /\ \E i \in 1..Len(instants) : instants[i].t = FallBack - 15

\* the source cell of metric column number m (2..5) of process_ods133's output
Source133(i, m) ==
    LET name == CASE m = 2 -> H_System_imbalance
                  [] m = 3 -> IF HasColumn(raw, H_Net_ACE_Adjusted)
                              THEN H_Net_ACE_Adjusted ELSE H_Area_Control_Error
                  [] m = 4 -> H_Marginal_incremental_price
                  [] OTHER -> H_Marginal_decremental_price
    IN Column(raw, name)[i]

\* C7: for a non-empty source table whose timestamps all parse,
\* process_ods133 raises only when a metric column is missing, and otherwise
\* returns one row per source row, in source order, with each metric cell
\* its number or, where the text is no number, null; source rows of
\* pairwise distinct instants get pairwise distinct timestamps, also where
\* the wall clock repeats.
C7_RowsPreserved ==
    (variant = "ods133" /\ npc # "raw" /\ Len(raw.data) > 0 /\ AllParseable) =>
        /\ out.status = IF raw.columns = Header133Short THEN "KeyError" ELSE "ok"
        /\ out.status = "ok" =>
            /\ out.table.columns = Columns133
            /\ Len(out.table.data) = Len(raw.data)
            /\ \A i \in 1..Len(raw.data) :
                /\ Datetime(out, i) = Timestamp(instants[i].t, Brussels)
                /\ \A m \in 2..5 : out.table.data[i][m] = Meaning(Source133(i, m))
            /\ \A i, j \in 1..Len(raw.data) :
                instants[i].t # instants[j].t =>
                    /\ Datetime(out, i) # Datetime(out, j)
                    /\ Civil(Datetime(out, i)) # Civil(Datetime(out, j))

\* two rows report the two instants that read 02:45 on the wall clock, one of
\* them with a cell that is no number, and both are in the output
C7_Witness ==
    /\ variant = "ods133"
    /\ npc = "normalized"
    /\ out.status = "ok"
    /\ Len(out.table.data) = 2
    /\ instants[1] = [t |-> FallBack - 15, enc |-> "local"]
    /\ instants[2] = [t |-> FallBack + 45, enc |-> "local"]
    /\ Source133(1, 2) = NotAvailable
    /\ out.table.data[1][2] = NaN
    /\ Civil(Datetime(out, 1)).wall = Civil(Datetime(out, 2)).wall

Shift(v) == IF v = "ods134" THEN 15 ELSE 0

------------------------------------------------------------------------------
(* The provider-A fetcher.                                                  *)

HttpOk == 200
HttpServerError == 500

\* what the catalog endpoint answers: a status and a body that pd.read_csv
\* parses to a table, or fails on
Response(status, parses, table) == [status |-> status, parses |-> parses, table |-> table]

\* lines 17-23 of fetch_csv
fetch_csv(resp) ==
    IF resp.status >= 400 THEN Raise("ClientResponseError")
    ELSE IF ~resp.parses THEN Raise("ParserError")
    ELSE Return(Frame([j \in 1..Len(resp.table.columns) |-> Strip(resp.table.columns[j])],
                      resp.table.data))

------------------------------------------------------------------------------
(* SpecRender: update_graphs, called MaxRenders times one after the other.   *)

MaxRenders == 2

Datasets == {"ods133", "ods134"}

SampleRow ==
    [time |-> [t |-> SpringForward, enc |-> "local"], si |-> Twelve, ace |-> MinusFive,
     mip |-> Seven, mdp |-> NotAvailable, price |-> MinusFive, pos |-> Twelve,
     neg |-> NotAvailable]

LaterRow == [SampleRow EXCEPT !.time = [t |-> SpringForward + 15, enc |-> "naive"]]

\* 'Datetime' and 'Imbalance Price' as a body writes them with blanks around
H_Datetime_padded == <<" ">> \o T_Datetime
H_Imbalance_price_padded == H_Imbalance_price \o <<" ">>

NoTable == Frame(<<>>, <<>>)

\* the answers of the catalog endpoint for a dataset
Responses(d) ==
    {Response(HttpServerError, FALSE, NoTable), Response(HttpOk, FALSE, NoTable)} \cup
    {Response(HttpOk, TRUE, t) :
        t \in IF d = "ods133"
              THEN {SourceFrame(Header133, <<>>), SourceFrame(Header133, <<SampleRow>>),
                    SourceFrame(Header133Short, <<SampleRow>>)}
              ELSE {SourceFrame(Header134, <<>>),
                    SourceFrame(<<H_Datetime_padded, H_Imbalance_price_padded>>, <<SampleRow>>),
                    SourceFrame(Header134Short, <<SampleRow>>)}}

\* answers of provider B on which the body of process_cbmp completes
CbmpGood ==
    {Return(SourceFrame(HeaderCbmp, <<SampleRow>>)), Return(SourceFrame(HeaderCbmp, <<>>))}

\* answers of provider B on which a statement of the body fails: no
\* connection, a malformed body, a missing column, a timestamp column that
\* mixes an offset with none
CbmpBad ==
    {Raise("URLError"), Raise("ParserError"),
     Return(SourceFrame(HeaderCbmpNoZeit, <<SampleRow>>)),
     Return(SourceFrame(HeaderCbmpNoNeg, <<SampleRow>>)),
     Return(SourceFrame(<<T_Zeit, T_ELIA_NEG>>, <<SampleRow>>)),
     Return(SourceFrame(HeaderCbmp, <<SampleRow, LaterRow>>))}

Unset == Frame(<<>>, <<>>)

NewTask == [state |-> "pending", result |-> Unset, error |-> ""]

Running == [kind |-> "running", error |-> "", at |-> "", fig1 |-> <<>>, fig2 |-> <<>>]

Raised(e, where) == [kind |-> "raised", error |-> e, at |-> where, fig1 |-> <<>>, fig2 |-> <<>>]

InitRender ==
    /\ pc = "idle"
    /\ render = 0
    /\ loops = <<>>
    /\ current_loop = 0
    /\ task = [ods133 |-> NewTask, ods134 |-> NewTask, exc |-> ""]
    /\ df_133 = Unset
    /\ df_134 = Unset
    /\ cbmp_resp = Raise("none")
    /\ cbmp_df = Unset
    /\ df1 = Unset
    /\ df2 = Unset
    /\ calls = {}
    /\ outcome = Running
    /\ ResolverIdle
    /\ NormIdle

\* lines 108-110, up to the first suspension of fetch_all_csv: a new loop is
\* created and installed, and gather starts both fetch_csv tasks
StartRender ==
    /\ pc \in {"idle", "returned", "raised"}
    /\ render < MaxRenders
    /\ render' = render + 1
    /\ loops' = Append(loops, "open")
    /\ current_loop' = render + 1
    /\ task' = [ods133 |-> NewTask, ods134 |-> NewTask, exc |-> ""]
    /\ df_133' = Unset
    /\ df_134' = Unset
    /\ cbmp_resp' = Raise("none")
    /\ cbmp_df' = Unset
    /\ df1' = Unset
    /\ df2' = Unset
    /\ calls' = {}
    /\ outcome' = Running
    /\ pc' = "fetching"
    /\ UNCHANGED <<resolverVars, normVars>>

\* one fetch_csv task runs to its end on the loop: it returns a table or
\* raises; gather keeps the first exception it is handed
FetchCompletes(d) ==
    /\ pc = "fetching"
    /\ task[d].state = "pending"
    /\ \E resp \in Responses(d) :
        LET r == fetch_csv(resp)
        IN task' = IF r.status = "ok"
                   THEN [task EXCEPT ![d] = [state |-> "ok", result |-> r.table, error |-> ""]]
                   ELSE [task EXCEPT ![d] = [state |-> "failed", result |-> Unset,
                                             error |-> r.status],
                                     !.exc = IF task.exc = "" THEN r.status ELSE task.exc]
    /\ UNCHANGED <<pc, render, loops, current_loop, df_133, df_134, cbmp_resp, cbmp_df,
                   df1, df2, calls, outcome, resolverVars, normVars>>

\* gather with failed fetches turned into empty tables, and the render going on
GatherSwallows ==
    /\ pc = "fetching"
    /\ task.exc # ""
    /\ \A d \in Datasets : task[d].state # "pending"
    /\ df_133' = task.ods133.result
    /\ df_134' = task.ods134.result
    /\ loops' = [loops EXCEPT ![render] = "closed"]
    /\ pc' = "cbmp"
    /\ UNCHANGED <<render, current_loop, task, cbmp_resp, cbmp_df, df1, df2, calls,
                   outcome, resolverVars, normVars>>

\* line 110 when a task has raised: gather hands its first exception to
\* fetch_all_csv, run_until_complete raises it, and update_graphs ends there;
\* the other task is left as it is, and line 111 is not reached
GatherRaises ==
    /\ pc = "fetching"
    /\ task.exc # ""
    /\ outcome' = Raised(task.exc, "fetch_all_csv")
    /\ pc' = "raised"
    /\ UNCHANGED <<render, loops, current_loop, task, df_133, df_134, cbmp_resp, cbmp_df,
                   df1, df2, calls, resolverVars, normVars>>

\* lines 110-111 when both tasks have returned: the pair is unpacked and the
\* loop is closed
GatherReturns ==
    /\ pc = "fetching"
    /\ \A d \in Datasets : task[d].state = "ok"
    /\ df_133' = task.ods133.result
    /\ df_134' = task.ods134.result
    /\ loops' = [loops EXCEPT ![render] = "closed"]
    /\ pc' = "cbmp"
    /\ UNCHANGED <<render, current_loop, task, cbmp_resp, cbmp_df, df1, df2, calls,
                   outcome, resolverVars, normVars>>

\* line 113: an exception of process_cbmp would end update_graphs
CallProcessCbmp ==
    /\ pc = "cbmp"
    /\ \E resp \in CbmpGood \cup CbmpBad :
        LET r == process_cbmp(resp)
        IN /\ cbmp_resp' = resp
           /\ IF r.status = "ok"
              THEN /\ cbmp_df' = r.table
                   /\ pc' = "normalize133"
                   /\ outcome' = outcome
              ELSE /\ cbmp_df' = cbmp_df
                   /\ pc' = "raised"
                   /\ outcome' = Raised(r.status, "process_cbmp")
    /\ UNCHANGED <<render, loops, current_loop, task, df_133, df_134, df1, df2, calls,
                   resolverVars, normVars>>

\* lines 115-118 without the test of line 115
Normalize133Unguarded ==
    /\ pc = "normalize133"
    /\ LET r == process_ods133(df_133)
       IN /\ calls' = calls \cup {<<"process_ods133", df_133>>}
          /\ IF r.status = "ok"
             THEN df1' = r.table /\ pc' = "normalize134" /\ outcome' = outcome
             ELSE df1' = df1 /\ pc' = "raised"
                  /\ outcome' = Raised(r.status, "process_ods133")
    /\ UNCHANGED <<render, loops, current_loop, task, df_133, df_134, cbmp_resp, cbmp_df,
                   df2, resolverVars, normVars>>

\* lines 115-118
Normalize133 ==
    /\ pc = "normalize133"
    /\ IF ~IsEmpty(df_133)
       THEN LET r == process_ods133(df_133)
            IN /\ calls' = calls \cup {<<"process_ods133", df_133>>}
               /\ IF r.status = "ok"
                  THEN df1' = r.table /\ pc' = "normalize134" /\ outcome' = outcome
                  ELSE df1' = df1 /\ pc' = "raised"
                       /\ outcome' = Raised(r.status, "process_ods133")
       ELSE /\ df1' = EmptyFrame(Columns133)
            /\ calls' = calls
            /\ pc' = "normalize134"
            /\ outcome' = outcome
    /\ UNCHANGED <<render, loops, current_loop, task, df_133, df_134, cbmp_resp, cbmp_df,
                   df2, resolverVars, normVars>>

\* lines 120-123
Normalize134 ==
    /\ pc = "normalize134"
    /\ IF ~IsEmpty(df_134)
       THEN LET r == process_ods134(df_134)
            IN /\ calls' = calls \cup {<<"process_ods134", df_134>>}
               /\ IF r.status = "ok"
                  THEN df2' = r.table /\ pc' = "figures" /\ outcome' = outcome
                  ELSE df2' = df2 /\ pc' = "raised"
                       /\ outcome' = Raised(r.status, "process_ods134")
       ELSE /\ df2' = EmptyFrame(Columns134)
            /\ calls' = calls
            /\ pc' = "figures"
            /\ outcome' = outcome
    /\ UNCHANGED <<render, loops, current_loop, task, df_133, df_134, cbmp_resp, cbmp_df,
                   df1, resolverVars, normVars>>

\* go.Scatter(x=df[xcol], y=df[ycol], mode='lines', name=name)
Scatter(df, ycol, name) ==
    [name |-> name, x |-> Column(df, T_Datetime), y |-> Column(df, ycol)]

\* fig.add_hline(y=value, ...)
HLine(value) == [name |-> "hline", x |-> <<>>, y |-> <<Num(value)>>]

\* the values of the two threshold inputs: None, or a number (the layout's
\* defaults are 200 and -200)
LineInputs == {None, <<200>>, <<0 - 200>>}

\* lines 125-147
BuildFigures ==
    /\ pc = "figures"
    /\ \E line1, line2 \in LineInputs :
        outcome' =
            [kind |-> "returned", error |-> "", at |-> "",
             fig1 |-> <<Scatter(df1, T_SI, "SI (MW)"), Scatter(df1, T_ACE, "ACE (MW)")>>,
             fig2 |-> <<Scatter(df1, T_MIP, "MIP"), Scatter(df1, T_MDP, "MDP"),
                        Scatter(df2, T_Imbalance, "Imbalance Price")>>
                      \o (IF ~IsEmpty(cbmp_df)
                          THEN <<Scatter(cbmp_df, T_ELIA_POS, "ELIA_POS"),
                                 Scatter(cbmp_df, T_ELIA_NEG, "ELIA_NEG")>>
                               \o (IF line1 # None THEN <<HLine(line1[1])>> ELSE <<>>)
                               \o (IF line2 # None THEN <<HLine(line2[1])>> ELSE <<>>)
                          ELSE <<>>)]
    /\ pc' = "returned"
    /\ UNCHANGED <<render, loops, current_loop, task, df_133, df_134, cbmp_resp, cbmp_df,
                   df1, df2, calls, resolverVars, normVars>>

NextRender ==
    \/ StartRender
    \/ \E d \in Datasets : FetchCompletes(d)
    \/ GatherRaises
    \/ GatherReturns
    \/ CallProcessCbmp
    \/ Normalize133
    \/ Normalize134
    \/ BuildFigures

SpecRender == InitRender /\ [][NextRender]_vars

Failed == {d \in Datasets : task[d].state = "failed"}

AfterFetch == {"cbmp", "normalize133", "normalize134", "figures", "returned"}

\* C3: process_cbmp never raises to update_graphs: on every answer of
\* provider B on which a statement of its body fails it returns the empty
\* table with the columns Datetime, ELIA_POS, ELIA_NEG, and no render ends
\* with an exception of process_cbmp.
C3_CbmpNeverRaises ==
    /\ outcome.kind = "raised" =>
        outcome.at \in {"fetch_all_csv", "process_ods133", "process_ods134"}
    /\ cbmp_resp # Raise("none") =>
        /\ pc # "cbmp"
        /\ cbmp_df.columns = ColumnsCbmp
        /\ cbmp_resp \in CbmpBad => cbmp_df = EmptyFrame(ColumnsCbmp)

\* a render returned its figures although provider B failed
C3_Witness ==
    /\ pc = "returned"
    /\ outcome.kind = "returned"
    /\ cbmp_resp \in CbmpBad
    /\ cbmp_df = EmptyFrame(ColumnsCbmp)

\* C4: normalization and figure construction of a render start only after
\* both fetch_csv tasks have returned a table; once either task has failed,
\* the render can only end by raising the first such error out of
\* fetch_all_csv, with no normalizer called and no figure built, whatever the
\* other task does.
C4_NoPartialResult ==
    /\ (pc \in AfterFetch \/ calls # {} \/ outcome.kind = "returned") =>
        /\ \A d \in Datasets : task[d].state = "ok"
        /\ df_133 = task.ods133.result
        /\ df_134 = task.ods134.result
    /\ Failed # {} =>
        /\ pc \in {"fetching", "raised"}
        /\ calls = {}
        /\ df1 = Unset /\ df2 = Unset /\ cbmp_df = Unset
        /\ outcome.fig1 = <<>> /\ outcome.fig2 = <<>>
        /\ pc = "raised" =>
            /\ outcome.kind = "raised"
            /\ outcome.at = "fetch_all_csv"
            /\ outcome.error = task.exc
            /\ \E d \in Failed : outcome.error = task[d].error

\* a render failed on the second fetch although the first one had returned
C4_Witness ==
    /\ pc = "raised"
    /\ task.ods133.state = "ok"
    /\ ~IsEmpty(task.ods133.result)
    /\ task.ods134.state = "failed"
    /\ outcome.at = "fetch_all_csv"

Called(f) == \E c \in calls : c[1] = f

\* C9: in a render whose fetches succeeded, process_ods133 is called, on
\* df_133, exactly when df_133 is not empty, and process_ods134, on df_134,
\* exactly when df_134 is not empty; an empty result is replaced by the empty
\* table of that variant's columns; the three tables handed to the figures
\* carry their fixed columns, and no normalizer is called on an empty table.
C9_NormalizeIffNonEmpty ==
    /\ \A c \in calls : ~IsEmpty(c[2])
    /\ (pc \in {"normalize134", "figures", "returned"} \/ Called("process_ods134")) =>
        /\ Called("process_ods133") <=> ~IsEmpty(df_133)
        /\ \A c \in calls : c[1] = "process_ods133" => c[2] = df_133
        /\ df1.columns = Columns133
        /\ IsEmpty(df_133) => df1 = EmptyFrame(Columns133)
    /\ pc \in {"figures", "returned"} =>
        /\ Called("process_ods134") <=> ~IsEmpty(df_134)
        /\ \A c \in calls : c[1] = "process_ods134" => c[2] = df_134
        /\ df2.columns = Columns134
        /\ IsEmpty(df_134) => df2 = EmptyFrame(Columns134)
        /\ cbmp_df.columns = ColumnsCbmp

\* a render returned with one provider-A result empty and the other not
C9_Witness ==
    /\ pc = "returned"
    /\ IsEmpty(df_133)
    /\ ~Called("process_ods133")
    /\ ~IsEmpty(df_134)
    /\ Called("process_ods134")

\* C10: on every path out of update_graphs the event loop that render
\* created has been closed.
C10_LoopClosedOnExit ==
    pc \in {"returned", "raised"} => loops[render] = "closed"

====
